---- MODULE Spec2Model ----
(***************************************************************************)
(* Alibaba Cloud ESA driver of ddns-go (dns/esa.go): the reconciliation    *)
(* pass addUpdateDomainRecords over the configured domains, against a      *)
(* model of the ESA provider (ListSites, ListRecords, CreateRecord,        *)
(* UpdateRecord).  Every provider request is one step of a caller, so the  *)
(* passes of two callers can interleave between their requests.            *)
(***************************************************************************)
EXTENDS Integers, Sequences, FiniteSets, TLC

\* Bound: how many times AddUpdateDomainRecords is invoked in all.
MaxRuns == 2

\* The callers, each holding its own ESA value.
Procs == {1, 2}

\* config.Domains: the configured hostnames, in the order the pass ranges over.
Domains ==
  << [SubDomain |-> "home", DomainName |-> "example.com"],
     [SubDomain |-> "bad",  DomainName |-> "example.org"] >>

DomainIdx == 1 .. Len(Domains)

\* Domains.Ipv4Domains and Domains.Ipv6Domains: the domains of each family, as
\* positions in Domains.  The second host is configured for IPv4 only.
DomainsOf(type) == IF type = "A" THEN <<1, 2>> ELSE <<1>>

\* domain.GetFullDomain(): the record name, sub domain joined to the root.
GetFullDomain(d) == <<Domains[d].SubDomain, Domains[d].DomainName>>

RootNames == {Domains[d].DomainName : d \in DomainIdx}
FullNames == {GetFullDomain(d) : d \in DomainIdx}

\* The record types of the two passes, in the order they run.
RecordTypes == {"A", "AAAA"}

\* The addresses discovery may report; "" is "unknown this cycle".
Addrs == {"203.0.113.5", "203.0.113.9"}
NoAddr == ""

\* dnsConf.TTL as configured: unset, or a value.
ConfTTLs == {"", "600"}

\* Site identifiers of the provider.
SiteIds == {1, 2}

\* config.UpdateStatus values.
NotExecuted == "NotExecuted"
UpdatedFailed == "Failed"
UpdatedSuccess == "Success"

VARIABLES
  mode,        \* "seq": one caller, pass after pass; "conc": two callers interleaved
  dnsConf,     \* the configuration handed to ESA.Init: its TTL
  pc,          \* pc[p]: where caller p stands
  runs,        \* runs[p]: invocations of AddUpdateDomainRecords so far
  TTL,         \* TTL[p]: esa.TTL
  status,      \* status[p][t][d]: domain.UpdateStatus of domain d in the list of type t
  recordType,  \* recordType[p]: the type of the pass in progress
  ipAddr,      \* ipAddr[p]: the address of the pass in progress
  idx,         \* idx[p]: position of the range loop in the domains of the family
  siteId,      \* siteId[p]: the loop body's siteId
  records,     \* records[p]: the loop body's records
  log,         \* log[p][d]: the provider calls of domain d's turn in the pass in progress
  cacheBefore, \* cacheBefore[p]: the cache of the family when p's pass began
  prev,        \* prev[p][t]: address and created domains of p's previous pass of type t
  sites,       \* provider: sites[name] is the ListSites answer for SiteName = name
  store,       \* provider: store[<<site, name, type>>] is the sequence of records
  nextId,      \* provider: the next RecordId it assigns
  ipCache      \* ipCache[t]: the shared util.IpCache of the family of type t

vars == <<mode, dnsConf, pc, runs, TTL, status, recordType, ipAddr, idx, siteId, records,
          log, cacheBefore, prev, sites, store, nextId, ipCache>>


----------------------------------------------------------------------------
(* Provider *)

Keys == SiteIds \X FullNames \X RecordTypes

\* ESAListSitesResp: what ListSites may answer for a site name.  The first root
\* has one site or two of that name; the second has none, one, or an answer
\* that counts none and still lists one.
SiteResponses(name) ==
  IF name = Domains[1].DomainName
    THEN { [TotalCount |-> 1, Sites |-> <<1>>],
           [TotalCount |-> 2, Sites |-> <<2, 1>>] }
    ELSE { [TotalCount |-> 0, Sites |-> <<>>],
           [TotalCount |-> 1, Sites |-> <<1>>],
           [TotalCount |-> 0, Sites |-> <<2>>] }

\* The provider of the interleaved runs: every root has its one site.
OneSite == [TotalCount |-> 1, Sites |-> <<1>>]

\* ESARecord, as far as the driver reads it.
Rec(id, value) == [RecordId |-> id, Value |-> value]

\* The record lists the name of domain d may hold before the driver first runs;
\* a RecordId names one record of the provider.
InitRecordLists(d) ==
  { <<>>,
    <<Rec(2 * d - 1, "203.0.113.5")>>,
    <<Rec(2 * d - 1, "203.0.113.5"), Rec(2 * d, "203.0.113.9")>> }

\* CreateRecord: the provider appends a record with a fresh RecordId.
ProviderCreate(st, key, id, value) ==
  [st EXCEPT ![key] = Append(@, Rec(id, value))]

\* UpdateRecord: the provider replaces the value of the record of that RecordId
\* in that site.
ProviderUpdate(st, site, id, value) ==
  [k \in DOMAIN st |->
     IF k[1] = site
       THEN [i \in 1 .. Len(st[k]) |->
               IF st[k][i].RecordId = id THEN Rec(id, value) ELSE st[k][i]]
       ELSE st[k]]

----------------------------------------------------------------------------
(* Driver: pure parts *)

\* Variant: an unset TTL is passed on as it is.
InitTTLNoDefault(conf) == conf

\* ESA.Init: the TTL of every write.
InitTTL(conf) == IF conf = "" THEN "30" ELSE conf

\* Variant: the empty-address guard is missing.
SkipPassNever(ip) == FALSE

\* addUpdateDomainRecords: the pass is skipped when the address is empty.
SkipPass(ip) == ip = NoAddr

\* Variant: the count of the answer is not looked at.
GetSiteIdResultNoCount(netErr, result) ==
  IF netErr THEN [err |-> TRUE, id |-> 0]
  ELSE IF Len(result.Sites) = 0
    THEN [err |-> TRUE, id |-> 0]
    ELSE [err |-> FALSE, id |-> result.Sites[1]]

\* getSiteId: [err, id] from the request's error and the decoded answer.
GetSiteIdResult(netErr, result) ==
  IF netErr THEN [err |-> TRUE, id |-> 0]
  ELSE IF result.TotalCount = 0 \/ Len(result.Sites) = 0
    THEN [err |-> TRUE, id |-> 0]
    ELSE [err |-> FALSE, id |-> result.Sites[1]]

\* listRecords: [err, recs] from the request's error and the decoded answer.
ListRecordsResult(netErr, recs) ==
  IF netErr THEN [err |-> TRUE, recs |-> <<>>] ELSE [err |-> FALSE, recs |-> recs]

\* Variant: one record is not enough to take the update branch.
HasRecordsOffByOne(recs) == Len(recs) > 1

\* addUpdateDomainRecords: update when a record exists, create otherwise.
HasRecords(recs) == Len(recs) > 0

\* Variant: the last record is handed to modify.
TargetRecordLast(recs) == recs[Len(recs)]

\* addUpdateDomainRecords: the record handed to modify.
TargetRecord(recs) == recs[1]

\* Variant: modify always sends the update.
UnchangedNever(record, ip) == FALSE

\* modify: nothing to do when the record already holds the address.
Unchanged(record, ip) == record.Value = ip

\* Variant: the error of the write request is dropped.
WriteStatusIgnoreErr(netErr) == UpdatedSuccess

\* create, modify: the status after the write request.
WriteStatus(netErr) == IF netErr THEN UpdatedFailed ELSE UpdatedSuccess

----------------------------------------------------------------------------
(* Log of the provider calls of one domain turn *)

EmptyLog ==
  [ before  |-> NotExecuted,  \* the status when the pass began
    nSites  |-> 0,  nList |-> 0,  nCreate |-> 0,  nUpdate |-> 0,
    siteOk  |-> FALSE,        \* getSiteId returned no error
    site    |-> 0,            \* the site id it returned
    listOk  |-> FALSE,        \* listRecords returned no error
    listed  |-> <<>>,         \* the records it returned
    same    |-> FALSE,        \* modify found the address unchanged
    wOk     |-> FALSE,        \* the write request returned no error
    wSite   |-> 0,  wId |-> 0,  wValue |-> "",  wTTL |-> "",  wType |-> "" ]

Active == IF mode = "seq" THEN {1} ELSE Procs

TypeOK ==
  /\ mode \in {"seq", "conc"}
  /\ pc \in [Procs -> {"new", "idle", "begin", "getSiteId", "listRecords",
                       "modify", "create", "end"}]
  /\ runs \in [Procs -> 0 .. MaxRuns]
  /\ status \in [Procs -> [RecordTypes -> [DomainIdx ->
                   {NotExecuted, UpdatedFailed, UpdatedSuccess}]]]
  /\ recordType \in [Procs -> RecordTypes]
  /\ ipAddr \in [Procs -> Addrs \cup {NoAddr}]
  /\ idx \in [Procs -> 0 .. Len(Domains)]
  /\ siteId \in [Procs -> SiteIds \cup {0}]

----------------------------------------------------------------------------
(* Initial states *)

InitCommon ==
  /\ pc = [p \in Procs |-> "new"]
  /\ runs = [p \in Procs |-> 0]
  /\ TTL = [p \in Procs |-> ""]
  /\ status = [p \in Procs |-> [t \in RecordTypes |-> [d \in DomainIdx |-> NotExecuted]]]
  /\ recordType = [p \in Procs |-> "A"]
  /\ ipAddr = [p \in Procs |-> NoAddr]
  /\ idx = [p \in Procs |-> 0]
  /\ siteId = [p \in Procs |-> 0]
  /\ records = [p \in Procs |-> <<>>]
  /\ log = [p \in Procs |-> [d \in DomainIdx |-> EmptyLog]]
  /\ cacheBefore = [p \in Procs |-> NoAddr]
  /\ prev = [p \in Procs |-> [t \in RecordTypes |-> [ip |-> NoAddr, created |-> {}]]]
  /\ \E init \in [DomainIdx -> UNION {InitRecordLists(d) : d \in DomainIdx}] :
       /\ \A d \in DomainIdx : init[d] \in InitRecordLists(d)
       /\ store = [k \in Keys |->
                    IF k[1] = 1 /\ k[3] = "A"
                      THEN init[CHOOSE d \in DomainIdx : GetFullDomain(d) = k[2]]
                      ELSE <<>>]
  /\ nextId = 2 * Len(Domains) + 1
  /\ ipCache = [t \in RecordTypes |-> NoAddr]

Init ==
  /\ mode = "seq"
  /\ dnsConf \in [TTL : ConfTTLs]
  /\ sites \in [RootNames -> UNION {SiteResponses(n) : n \in RootNames}]
  /\ \A n \in RootNames : sites[n] \in SiteResponses(n)
  /\ InitCommon

InitConc ==
  /\ mode = "conc"
  /\ dnsConf = [TTL |-> ""]
  /\ sites = [n \in RootNames |-> OneSite]
  /\ InitCommon

----------------------------------------------------------------------------
(* Driver: steps *)

\* The domain of the loop body.
Dom(p) == DomainsOf(recordType[p])[idx[p]]

Key(p) == <<siteId[p], GetFullDomain(Dom(p)), recordType[p]>>

\* Variant: the status is written to every domain of the family.
SetStatusAll(p, st) ==
  [status EXCEPT ![p][recordType[p]] = [d \in DomainIdx |-> st]]

\* domain.UpdateStatus = st, for the domain of the loop body.
SetStatus(p, st) == [status EXCEPT ![p][recordType[p]][Dom(p)] = st]

\* "continue", or the end of the range loop: the locals of the loop body die.
Continue(p) ==
  /\ siteId' = [siteId EXCEPT ![p] = 0]
  /\ records' = [records EXCEPT ![p] = <<>>]
  /\ IF idx[p] < Len(DomainsOf(recordType[p]))
       THEN idx' = [idx EXCEPT ![p] = @ + 1] /\ pc' = [pc EXCEPT ![p] = "getSiteId"]
       ELSE idx' = [idx EXCEPT ![p] = 0] /\ pc' = [pc EXCEPT ![p] = "end"]

\* Variant: a failed lookup ends the pass ("return" for "continue").
ReturnAfterError(p) ==
  /\ siteId' = [siteId EXCEPT ![p] = 0]
  /\ records' = [records EXCEPT ![p] = <<>>]
  /\ idx' = [idx EXCEPT ![p] = 0]
  /\ pc' = [pc EXCEPT ![p] = "end"]

\* Variant: a failed lookup is tried again for the same domain.
RetryAfterError(p) ==
  /\ siteId' = [siteId EXCEPT ![p] = 0]
  /\ records' = [records EXCEPT ![p] = <<>>]
  /\ idx' = idx
  /\ pc' = [pc EXCEPT ![p] = "getSiteId"]

\* "continue" after a failed getSiteId or listRecords: the next domain's turn.
ContinueAfterError(p) == Continue(p)

\* ESA.Init: keep the caches and the configuration, fix the TTL.
ESAInit(p) ==
  /\ p \in Active
  /\ pc[p] = "new"
  /\ TTL' = [TTL EXCEPT ![p] = InitTTL(dnsConf.TTL)]
  /\ pc' = [pc EXCEPT ![p] = "idle"]
  /\ UNCHANGED <<mode, dnsConf, cacheBefore, runs, status, recordType, ipAddr, idx, siteId, records,
                 log, prev, sites, store, nextId, ipCache>>

\* AddUpdateDomainRecords: the pass of type A first.
AddUpdateDomainRecords(p) ==
  /\ p \in Active
  /\ pc[p] = "idle"
  /\ runs[1] + runs[2] < MaxRuns
  /\ runs' = [runs EXCEPT ![p] = @ + 1]
  /\ recordType' = [recordType EXCEPT ![p] = "A"]
  /\ pc' = [pc EXCEPT ![p] = "begin"]
  /\ UNCHANGED <<mode, dnsConf, cacheBefore, TTL, status, ipAddr, idx, siteId, records, log, prev,
                 sites, store, nextId, ipCache>>

\* Domains.GetNewIpResult: the address of the family and its domains; the cache
\* is read here and written only after a pass.
GetNewIpResult(p, ip) ==
  /\ ipAddr' = [ipAddr EXCEPT ![p] = ip]
  /\ UNCHANGED ipCache

\* addUpdateDomainRecords, up to the range loop.
Begin(p) ==
  /\ pc[p] = "begin"
  /\ \E ip \in Addrs \cup {NoAddr} :
       /\ GetNewIpResult(p, ip)
       /\ IF SkipPass(ip)
            THEN pc' = [pc EXCEPT ![p] = "end"] /\ idx' = idx
            ELSE pc' = [pc EXCEPT ![p] = "getSiteId"] /\ idx' = [idx EXCEPT ![p] = 1]
  /\ log' = [log EXCEPT ![p] =
               [d \in DomainIdx |-> [EmptyLog EXCEPT !.before = status[p][recordType[p]][d]]]]
  /\ cacheBefore' = [cacheBefore EXCEPT ![p] = ipCache[recordType[p]]]
  /\ UNCHANGED <<mode, dnsConf, runs, TTL, status, recordType, siteId, records, prev,
                 sites, store, nextId>>

\* getSiteId and the branch on its error.
GetSiteId(p) ==
  /\ pc[p] = "getSiteId"
  /\ \E netErr \in BOOLEAN :
       LET r == GetSiteIdResult(netErr, sites[Domains[Dom(p)].DomainName]) IN
       /\ log' = [log EXCEPT ![p][Dom(p)] =
                    [@ EXCEPT !.nSites = @ + 1, !.siteOk = ~r.err, !.site = r.id]]
       /\ IF r.err
            THEN /\ status' = SetStatus(p, UpdatedFailed)
                 /\ ContinueAfterError(p)
            ELSE /\ siteId' = [siteId EXCEPT ![p] = r.id]
                 /\ pc' = [pc EXCEPT ![p] = "listRecords"]
                 /\ UNCHANGED <<status, idx, records>>
  /\ UNCHANGED <<mode, dnsConf, cacheBefore, runs, TTL, recordType, ipAddr, prev, sites, store, nextId, ipCache>>

\* listRecords and the branches on its error and on the number of records.
ListRecords(p) ==
  /\ pc[p] = "listRecords"
  /\ \E netErr \in BOOLEAN :
       LET r == ListRecordsResult(netErr, store[Key(p)]) IN
       /\ log' = [log EXCEPT ![p][Dom(p)] =
                    [@ EXCEPT !.nList = @ + 1, !.listOk = ~r.err, !.listed = r.recs]]
       /\ IF r.err
            THEN /\ status' = SetStatus(p, UpdatedFailed)
                 /\ ContinueAfterError(p)
            ELSE /\ records' = [records EXCEPT ![p] = r.recs]
                 /\ pc' = [pc EXCEPT ![p] = IF HasRecords(r.recs) THEN "modify" ELSE "create"]
                 /\ UNCHANGED <<status, idx, siteId>>
  /\ UNCHANGED <<mode, dnsConf, cacheBefore, runs, TTL, recordType, ipAddr, prev, sites, store, nextId, ipCache>>

\* modify: return when the value is the address, else one UpdateRecord request.
Modify(p) ==
  /\ pc[p] = "modify"
  /\ LET record == TargetRecord(records[p]) IN
     IF Unchanged(record, ipAddr[p])
       THEN /\ log' = [log EXCEPT ![p][Dom(p)].same = TRUE]
            /\ UNCHANGED <<status, store>>
       ELSE \E netErr \in BOOLEAN :
            /\ log' = [log EXCEPT ![p][Dom(p)] =
                         [@ EXCEPT !.nUpdate = @ + 1, !.wOk = ~netErr,
                                   !.wSite = siteId[p], !.wId = record.RecordId,
                                   !.wValue = ipAddr[p], !.wTTL = TTL[p],
                                   !.wType = recordType[p]]]
            /\ store' = IF netErr THEN store
                        ELSE ProviderUpdate(store, siteId[p], record.RecordId, ipAddr[p])
            /\ status' = SetStatus(p, WriteStatus(netErr))
  /\ Continue(p)
  /\ UNCHANGED <<mode, dnsConf, cacheBefore, runs, TTL, recordType, ipAddr, prev, sites, nextId, ipCache>>

\* create: one CreateRecord request.
Create(p) ==
  /\ pc[p] = "create"
  /\ \E netErr \in BOOLEAN :
       /\ log' = [log EXCEPT ![p][Dom(p)] =
                    [@ EXCEPT !.nCreate = @ + 1, !.wOk = ~netErr,
                              !.wSite = siteId[p], !.wValue = ipAddr[p],
                              !.wTTL = TTL[p], !.wType = recordType[p]]]
       /\ store' = IF netErr THEN store
                   ELSE ProviderCreate(store, Key(p), nextId, ipAddr[p])
       /\ nextId' = IF netErr THEN nextId ELSE nextId + 1
       /\ status' = SetStatus(p, WriteStatus(netErr))
  /\ Continue(p)
  /\ UNCHANGED <<mode, dnsConf, cacheBefore, runs, TTL, recordType, ipAddr, prev, sites, ipCache>>

\* The domains whose CreateRecord succeeded in the pass that just ended.
Created(p) == {d \in DomainIdx : log[p][d].nCreate > 0 /\ log[p][d].wOk}

\* Variant: AddUpdateDomainRecords returns after a pass of type A that was
\* skipped or left a domain Failed.
EndPassStopOnFailure(p) ==
  /\ pc[p] = "end"
  /\ prev' = [prev EXCEPT ![p][recordType[p]] = [ip |-> ipAddr[p], created |-> Created(p)]]
  /\ IF /\ recordType[p] = "A"
        /\ ipAddr[p] # NoAddr
        /\ \A d \in DomainIdx : status[p]["A"][d] # UpdatedFailed
       THEN /\ recordType' = [recordType EXCEPT ![p] = "AAAA"]
            /\ pc' = [pc EXCEPT ![p] = "begin"]
       ELSE /\ recordType' = [recordType EXCEPT ![p] = "A"]
            /\ pc' = [pc EXCEPT ![p] = "idle"]
  /\ ipAddr' = [ipAddr EXCEPT ![p] = NoAddr]
  /\ log' = [log EXCEPT ![p] = [d \in DomainIdx |-> EmptyLog]]
  /\ UNCHANGED <<mode, dnsConf, cacheBefore, runs, TTL, status, idx, siteId, records, sites, store,
                 nextId, ipCache>>

\* addUpdateDomainRecords returns: the pass of type AAAA follows the pass of
\* type A, and AddUpdateDomainRecords returns after the pass of type AAAA.
EndPass(p) ==
  /\ pc[p] = "end"
  /\ prev' = [prev EXCEPT ![p][recordType[p]] = [ip |-> ipAddr[p], created |-> Created(p)]]
  /\ IF recordType[p] = "A"
       THEN /\ recordType' = [recordType EXCEPT ![p] = "AAAA"]
            /\ pc' = [pc EXCEPT ![p] = "begin"]
       ELSE /\ recordType' = [recordType EXCEPT ![p] = "A"]
            /\ pc' = [pc EXCEPT ![p] = "idle"]
  /\ ipAddr' = [ipAddr EXCEPT ![p] = NoAddr]
  /\ log' = [log EXCEPT ![p] = [d \in DomainIdx |-> EmptyLog]]
  /\ UNCHANGED <<mode, dnsConf, cacheBefore, runs, TTL, status, idx, siteId, records, sites, store,
                 nextId, ipCache>>

Next ==
  \/ \E p \in Procs : ESAInit(p)
  \/ \E p \in Procs : AddUpdateDomainRecords(p)
  \/ \E p \in Procs : Begin(p)
  \/ \E p \in Procs : GetSiteId(p)
  \/ \E p \in Procs : ListRecords(p)
  \/ \E p \in Procs : Modify(p)
  \/ \E p \in Procs : Create(p)
  \/ \E p \in Procs : EndPass(p)

----------------------------------------------------------------------------
(* What the claims speak of *)

\* The candidate domains of the pass caller p is in.
Cand(p) == {DomainsOf(recordType[p])[i] : i \in 1 .. Len(DomainsOf(recordType[p]))}

\* Caller p's pass has processed all its domains, with a non-empty address.
PassEnded(p) == pc[p] = "end" /\ ipAddr[p] # NoAddr

\* Caller p's pass was skipped for an empty address.
PassSkipped(p) == pc[p] = "end" /\ ipAddr[p] = NoAddr /\ runs[p] > 0

\* The status of domain d in the family of p's pass.
St(p, d) == status[p][recordType[p]][d]

\* The first record listed in d's turn already holds the address.
ListedSame(p, d) ==
  /\ log[p][d].listOk
  /\ Len(log[p][d].listed) > 0
  /\ log[p][d].listed[1].Value = ipAddr[p]

\* The first record listed in d's turn holds another value.
ListedOther(p, d) ==
  /\ log[p][d].listOk
  /\ Len(log[p][d].listed) > 0
  /\ log[p][d].listed[1].Value # ipAddr[p]

\* The write requests of d's turn.
Writes(p, d) == log[p][d].nCreate + log[p][d].nUpdate

\* The ListSites answer for the root of domain d.
SitesAnswer(d) == sites[Domains[d].DomainName]

\* The provider key of d's turn.
LogKey(p, d) == <<log[p][d].site, GetFullDomain(d), recordType[p]>>

\* One caller invoking the driver again and again.
Spec == Init /\ [][Next]_vars

\* Two callers, their provider requests interleaved.
SpecConc == InitConc /\ [][Next]_vars

----------------------------------------------------------------------------
(* C1 *)

----------------------------------------------------------------------------
(* C2 *)

\* C2: a domain whose zone resolved and whose listing came back empty gets
\* exactly one CreateRecord in the pass; and a domain whose CreateRecord
\* succeeded in the caller's previous pass of the family gets no CreateRecord and
\* no UpdateRecord in a pass with the same address.
C2_AtMostOneCreate ==
  \A p \in Procs : PassEnded(p) =>
    \A d \in Cand(p) :
      /\ (log[p][d].siteOk /\ log[p][d].listOk /\ log[p][d].listed = <<>>)
           => (log[p][d].nCreate = 1 /\ log[p][d].nUpdate = 0)
      /\ (prev[p][recordType[p]].ip = ipAddr[p] /\ d \in prev[p][recordType[p]].created)
           => Writes(p, d) = 0

\* The second pass listed the record the first pass created and left it alone.
C2_Witness ==
  \E p \in Procs : PassEnded(p) /\
    \E d \in Cand(p) :
      /\ prev[p][recordType[p]].ip = ipAddr[p]
      /\ d \in prev[p][recordType[p]].created
      /\ ListedSame(p, d)
      /\ log[p][d].same

----------------------------------------------------------------------------
(* C3 *)

\* The records of key k that the driver created (the provider gave them ids
\* beyond those of the records it held at the start).
DriverCreated(k) ==
  {i \in 1 .. Len(store[k]) : store[k][i].RecordId > 2 * Len(Domains)}

\* C3: the provider never holds more than one record created by the driver
\* for one (zone, name, type).
C3_NoDuplicateRecord ==
  \A k \in Keys : Cardinality(DriverCreated(k)) <= 1

----------------------------------------------------------------------------
(* C4 *)

\* Zone resolution failed for a; the provider has a site for b's root, and no
\* ListSites, ListRecords or write request of b's turn failed.
C4_Case(p, a, b) ==
  /\ a # b
  /\ log[p][a].nSites = 1 /\ ~log[p][a].siteOk
  /\ SitesAnswer(b).TotalCount # 0 /\ Len(SitesAnswer(b).Sites) > 0
  /\ log[p][b].nSites = 1 => log[p][b].siteOk
  /\ log[p][b].nList = 1 => log[p][b].listOk
  /\ Writes(p, b) = 1 => log[p][b].wOk

----------------------------------------------------------------------------
(* C5 *)

\* C5 as stated: getSiteId returns a site id only when exactly one site has
\* the name.
C5_OnlyWhenExactlyOne ==
  \A p \in Procs, d \in DomainIdx :
    log[p][d].siteOk => Len(SitesAnswer(d).Sites) = 1

\* C5 amended: getSiteId returns a site id only when the answer counts and
\* lists at least one site, and the id is that of the first site listed; it
\* returns an error when no site is counted or listed.
C5_FirstSiteOrError ==
  \A p \in Procs, d \in DomainIdx :
    /\ log[p][d].siteOk =>
         /\ SitesAnswer(d).TotalCount # 0
         /\ Len(SitesAnswer(d).Sites) >= 1
         /\ log[p][d].site = SitesAnswer(d).Sites[1]
    /\ (log[p][d].nSites = 1 /\ ~log[p][d].siteOk) => log[p][d].site = 0
    /\ (pc[p] \in {"listRecords", "modify", "create"} /\ d = Dom(p))
         => (log[p][d].siteOk /\ siteId[p] = log[p][d].site)

\* getSiteId returned the first of two sites of the name.
C5_Witness ==
  \E p \in Procs, d \in DomainIdx :
    /\ log[p][d].siteOk
    /\ Len(SitesAnswer(d).Sites) = 2
    /\ log[p][d].site = SitesAnswer(d).Sites[1]

----------------------------------------------------------------------------
(* C6 *)

\* The status that the provider outcomes of d's turn alone would give.
PassOutcome(p, d) ==
  IF log[p][d].siteOk /\ log[p][d].listOk /\ (Writes(p, d) = 0 \/ log[p][d].wOk)
    THEN UpdatedSuccess
    ELSE UpdatedFailed

----------------------------------------------------------------------------
(* C7 *)

\* C7: when a pass has processed all its domains, the cache of the family holds
\* the address of the pass if some domain ended with status Success, and is as
\* it was when the pass began if none did.
C7_CacheAdvance ==
  \A p \in Procs : PassEnded(p) =>
    IF \E d \in Cand(p) : St(p, d) = UpdatedSuccess
      THEN ipCache[recordType[p]] = ipAddr[p]
      ELSE ipCache[recordType[p]] = cacheBefore[p]

----------------------------------------------------------------------------
(* C8 *)

\* C8: with an empty address the pass sends no ListSites, ListRecords,
\* CreateRecord or UpdateRecord request, and the cache of the family is as it
\* was when the pass began.
C8_EmptyAddressSkips ==
  \A p \in Procs :
    /\ pc[p] \in {"getSiteId", "listRecords", "modify", "create"} => ipAddr[p] # NoAddr
    /\ PassSkipped(p) =>
         /\ \A d \in DomainIdx :
              /\ log[p][d].nSites = 0 /\ log[p][d].nList = 0
              /\ log[p][d].nCreate = 0 /\ log[p][d].nUpdate = 0
         /\ ipCache[recordType[p]] = cacheBefore[p]

\* A pass of a caller whose previous pass of the family had an address was
\* skipped for an empty address.
C8_Witness ==
  \E p \in Procs :
    /\ PassSkipped(p)
    /\ recordType[p] = "A"
    /\ prev[p]["A"].ip # NoAddr

----------------------------------------------------------------------------
(* C9 *)

\* C9: when the listing is non-empty and its first record holds another value
\* than the address, the pass sends exactly one UpdateRecord, with that
\* record's id and the address, and no CreateRecord; the status is Success if
\* the request succeeds and Failed if it fails.
C9_UpdatePath ==
  \A p \in Procs : PassEnded(p) =>
    \A d \in Cand(p) : ListedOther(p, d) =>
      /\ log[p][d].nUpdate = 1
      /\ log[p][d].nCreate = 0
      /\ log[p][d].wId = log[p][d].listed[1].RecordId
      /\ log[p][d].wValue = ipAddr[p]
      /\ log[p][d].wSite = log[p][d].site
      /\ St(p, d) = IF log[p][d].wOk THEN UpdatedSuccess ELSE UpdatedFailed
      /\ log[p][d].wOk => store[LogKey(p, d)][1] = Rec(log[p][d].wId, ipAddr[p])

\* An UpdateRecord failed on a record holding another value, in the turn of a
\* domain that was Success before.
C9_Witness ==
  \E p \in Procs : PassEnded(p) /\
    \E d \in Cand(p) :
      /\ ListedOther(p, d)
      /\ ~log[p][d].wOk
      /\ St(p, d) = UpdatedFailed
      /\ log[p][d].before = UpdatedSuccess

----------------------------------------------------------------------------
(* C10 *)

\* C10: when the listing has two or more records, the only RecordId in an
\* UpdateRecord of the turn is the first record's, at most one write is sent,
\* and every record after the first still holds the value it was listed with.
C10_OnlyFirstRecord ==
  \A p \in Procs : PassEnded(p) =>
    \A d \in Cand(p) : (log[p][d].listOk /\ Len(log[p][d].listed) >= 2) =>
      /\ log[p][d].nCreate = 0
      /\ log[p][d].nUpdate <= 1
      /\ log[p][d].nUpdate = 1 => log[p][d].wId = log[p][d].listed[1].RecordId
      /\ Len(store[LogKey(p, d)]) = Len(log[p][d].listed)
      /\ \A i \in 2 .. Len(log[p][d].listed) :
           store[LogKey(p, d)][i] = log[p][d].listed[i]

\* The first of two records was updated while the second, holding another
\* value than the address, was left alone.
C10_Witness ==
  \E p \in Procs : PassEnded(p) /\
    \E d \in Cand(p) :
      /\ log[p][d].listOk
      /\ Len(log[p][d].listed) = 2
      /\ log[p][d].listed[2].Value # ipAddr[p]
      /\ log[p][d].nUpdate = 1 /\ log[p][d].wOk
      /\ store[LogKey(p, d)][2] = log[p][d].listed[2]

----------------------------------------------------------------------------
(* C11 *)

\* getSiteId returned an error in d's turn.
ZoneFailed(p, d) == log[p][d].nSites = 1 /\ ~log[p][d].siteOk

\* C11: when getSiteId returns an error for a domain, the domain's status is
\* Failed, no ListRecords, CreateRecord or UpdateRecord is sent for it in the
\* pass, and every other domain of the pass still has its turn.
C11_ZoneFailure ==
  \A p \in Procs : PassEnded(p) =>
    \A d \in Cand(p) : ZoneFailed(p, d) =>
      /\ St(p, d) = UpdatedFailed
      /\ log[p][d].nList = 0
      /\ log[p][d].nCreate = 0 /\ log[p][d].nUpdate = 0
      /\ \A e \in Cand(p) : log[p][e].nSites = 1

\* The first domain's zone resolution failed, overwriting a Success, and the
\* second domain's record was then created.
C11_Witness ==
  \E p \in Procs : PassEnded(p) /\
    /\ ZoneFailed(p, 1)
    /\ log[p][1].before = UpdatedSuccess
    /\ log[p][2].nCreate = 1 /\ log[p][2].wOk

----------------------------------------------------------------------------
(* C12 *)

\* listRecords returned an error in d's turn.
ListFailed(p, d) == log[p][d].nList = 1 /\ ~log[p][d].listOk

\* C12: when listRecords returns an error for a domain, the domain's status is
\* Failed, no CreateRecord or UpdateRecord is sent for it in the pass, and the
\* pass goes on to the next domain.
C12_ListFailure ==
  \A p \in Procs : PassEnded(p) =>
    \A d \in Cand(p) : ListFailed(p, d) =>
      /\ St(p, d) = UpdatedFailed
      /\ log[p][d].siteOk
      /\ log[p][d].nCreate = 0 /\ log[p][d].nUpdate = 0
      /\ \A e \in Cand(p) : log[p][e].nSites = 1

\* The first domain's listing failed, overwriting a Success, and the second
\* domain's record was then updated.
C12_Witness ==
  \E p \in Procs : PassEnded(p) /\
    /\ ListFailed(p, 1)
    /\ log[p][1].before = UpdatedSuccess
    /\ log[p][2].nUpdate = 1 /\ log[p][2].wOk

----------------------------------------------------------------------------
(* C13 *)

\* One step of caller p inside the range loop: a request that returns (the
\* transport bounds every request) and the code up to the next request.
PassStep(p) == GetSiteId(p) \/ ListRecords(p) \/ Modify(p) \/ Create(p)

\* A caller inside a pass keeps running: its code is sequential and each of its
\* requests returns.
SpecLive == Init /\ [][Next]_vars /\ \A p \in Procs : WF_vars(PassStep(p))

\* Caller p is inside the range loop of a pass.
InPass(p) == pc[p] \in {"getSiteId", "listRecords", "modify", "create"}

\* C13: a pass with a non-empty address terminates whatever the provider
\* answers, and when it does zone resolution has been attempted for every
\* candidate domain.
C13_PassCompletes ==
  \A p \in Procs :
    InPass(p) ~> (PassEnded(p) /\ \A d \in Cand(p) : log[p][d].nSites = 1)

\* A pass ended in which every request that was sent failed.
C13_Witness ==
  \E p \in Procs : PassEnded(p) /\
    /\ recordType[p] = "A"
    /\ ZoneFailed(p, 1)
    /\ ListFailed(p, 2)

----------------------------------------------------------------------------
(* C14 *)

\* A request of d's turn returned an error.
CallFailed(p, d) ==
  \/ ZoneFailed(p, d)
  \/ ListFailed(p, d)
  \/ (Writes(p, d) >= 1 /\ ~log[p][d].wOk)

\* C14: within one pass a domain gets at most one ListSites, at most one
\* ListRecords and at most one write request (CreateRecord or UpdateRecord);
\* after a failed request no further request is sent for the domain, and the
\* domain is Failed when the pass ends.
C14_NoRetry ==
  \A p \in Procs : \A d \in DomainIdx :
    /\ log[p][d].nSites <= 1
    /\ log[p][d].nList <= 1
    /\ Writes(p, d) <= 1
    /\ ZoneFailed(p, d) => (log[p][d].nList = 0 /\ Writes(p, d) = 0)
    /\ ListFailed(p, d) => Writes(p, d) = 0
    /\ (CallFailed(p, d) /\ (PassEnded(p) \/ InPass(p))) => St(p, d) = UpdatedFailed

\* A pass ended in which a CreateRecord failed for one domain and an
\* UpdateRecord failed for the other, each sent once.
C14_Witness ==
  \E p \in Procs : PassEnded(p) /\
    \E d \in Cand(p), e \in Cand(p) :
      /\ log[p][d].nCreate = 1 /\ ~log[p][d].wOk
      /\ log[p][e].nUpdate = 1 /\ ~log[p][e].wOk
      /\ St(p, d) = UpdatedFailed /\ St(p, e) = UpdatedFailed

----------------------------------------------------------------------------
(* C15 *)

\* C15: when the address of the family is empty, every domain has after the
\* pass the status it had before the pass.
C15_SkippedPassKeepsStatus ==
  \A p \in Procs : PassSkipped(p) =>
    \A d \in DomainIdx : St(p, d) = log[p][d].before

\* A pass was skipped while one domain of the family was Success and another
\* Failed.
C15_Witness ==
  \E p \in Procs : PassSkipped(p) /\
    \E d \in Cand(p), e \in Cand(p) :
      /\ St(p, d) = UpdatedSuccess /\ log[p][d].before = UpdatedSuccess
      /\ St(p, e) = UpdatedFailed /\ log[p][e].before = UpdatedFailed

----------------------------------------------------------------------------
(* C16 *)

\* C16: every CreateRecord and UpdateRecord carries the configured TTL when
\* one is configured and "30" when none is, whatever the domain, the record and
\* the address.
C16_WriteTTL ==
  \A p \in Procs : \A d \in DomainIdx :
    Writes(p, d) >= 1 =>
      log[p][d].wTTL = IF dnsConf.TTL = "" THEN "30" ELSE dnsConf.TTL

\* With no TTL configured, a CreateRecord for one domain and an UpdateRecord
\* for the other were sent in one pass.
C16_Witness ==
  /\ dnsConf.TTL = ""
  /\ \E p \in Procs : PassEnded(p) /\
       \E d \in Cand(p), e \in Cand(p) :
         /\ log[p][d].nCreate = 1 /\ log[p][d].wTTL = "30"
         /\ log[p][e].nUpdate = 1 /\ log[p][e].wTTL = "30"

----------------------------------------------------------------------------
(* C17 *)

\* C17: a step changes the status of a domain only in that domain's own turn:
\* the step is one of the caller whose loop body is at that domain, in the
\* family of the pass; every other status is left as it was.
C17_StatusOwnership ==
  [][\A p \in Procs, t \in RecordTypes, d \in DomainIdx :
       status'[p][t][d] # status[p][t][d] =>
         /\ InPass(p)
         /\ t = recordType[p]
         /\ d = Dom(p)]_vars

\* The second domain's turn made it Failed while the first domain, made
\* Success in its own turn, stayed Success.
C17_Witness ==
  \E p \in Procs : PassEnded(p) /\
    /\ St(p, 1) = UpdatedSuccess /\ Writes(p, 1) = 1
    /\ St(p, 2) = UpdatedFailed /\ log[p][2].before # UpdatedFailed

----------------------------------------------------------------------------
(* C18 *)

\* C18: a CreateRecord is sent only after, in the same turn, a ListSites that
\* succeeded and a ListRecords that succeeded with no record, and it carries
\* the site id that ListSites returned; an UpdateRecord is sent only after a
\* ListRecords that returned a first record holding another value than the
\* address, for that record; the site id is the one the provider answers in
\* this turn, and none is kept from an earlier turn.
C18_WriteGuard ==
  \A p \in Procs :
    /\ \A d \in DomainIdx :
         /\ log[p][d].nCreate >= 1 =>
              /\ log[p][d].nSites = 1 /\ log[p][d].siteOk
              /\ log[p][d].nList = 1 /\ log[p][d].listOk
              /\ log[p][d].listed = <<>>
              /\ log[p][d].wSite = log[p][d].site
              /\ log[p][d].site = SitesAnswer(d).Sites[1]
              /\ log[p][d].wValue = ipAddr[p] /\ log[p][d].wType = recordType[p]
         /\ log[p][d].nUpdate >= 1 =>
              /\ log[p][d].nSites = 1 /\ log[p][d].siteOk
              /\ log[p][d].nList = 1 /\ log[p][d].listOk
              /\ Len(log[p][d].listed) > 0
              /\ log[p][d].listed[1].Value # ipAddr[p]
              /\ log[p][d].wId = log[p][d].listed[1].RecordId
              /\ log[p][d].wSite = log[p][d].site
              /\ log[p][d].site = SitesAnswer(d).Sites[1]
              /\ log[p][d].wValue = ipAddr[p] /\ log[p][d].wType = recordType[p]
    /\ pc[p] \in {"new", "idle", "begin", "getSiteId", "end"} => siteId[p] = 0
    /\ pc[p] \in {"listRecords", "modify", "create"} =>
         siteId[p] = log[p][Dom(p)].site /\ log[p][Dom(p)].nSites = 1

\* In one pass a record was created in the second of two sites of the first
\* root and a record of the second domain was updated in its one site.
C18_Witness ==
  \E p \in Procs : PassEnded(p) /\
    /\ log[p][1].nCreate = 1 /\ log[p][1].wSite = 2
    /\ log[p][2].nUpdate = 1 /\ log[p][2].wSite = 1

----------------------------------------------------------------------------
(* C19 *)

\* C19: AddUpdateDomainRecords starts with the pass of type A; the type of a
\* caller's pass changes only when a pass has ended; the end of the pass of
\* type A is followed by the start of the pass of type AAAA whatever the
\* address and the statuses were, and the end of the pass of type AAAA by the
\* return; and every ListRecords, CreateRecord or UpdateRecord is of the type
\* of the pass in progress.
C19_FamilyOrder ==
  [][\A p \in Procs :
       /\ (pc[p] = "idle" /\ pc'[p] # "idle") =>
            (pc'[p] = "begin" /\ recordType'[p] = "A")
       /\ recordType'[p] # recordType[p] => pc[p] = "end"
       /\ (pc[p] = "end" /\ pc'[p] # "end" /\ recordType[p] = "A") =>
            (pc'[p] = "begin" /\ recordType'[p] = "AAAA")
       /\ (pc[p] = "end" /\ pc'[p] # "end" /\ recordType[p] = "AAAA") =>
            (pc'[p] = "idle" /\ recordType'[p] = "A")
       /\ \A d \in DomainIdx :
            (log'[p][d].nList + Writes(p, d)' > log[p][d].nList + Writes(p, d)) =>
              /\ InPass(p)
              /\ recordType'[p] = recordType[p]
              /\ Writes(p, d)' > Writes(p, d) => log'[p][d].wType = recordType[p]]_vars

\* The pass of type AAAA created a record after a pass of type A that was
\* skipped for an empty address.
C19_Witness ==
  \E p \in Procs : PassEnded(p) /\
    /\ recordType[p] = "AAAA"
    /\ prev[p]["A"].ip = NoAddr
    /\ log[p][1].nCreate = 1 /\ log[p][1].wOk /\ log[p][1].wType = "AAAA"

====
